---- MODULE Spec2Model ----
(***************************************************************************)
(* Model of the document-analysis submission pipeline and the live job     *)
(* projection of src/src/App.js (component App and its helpers).           *)
(*                                                                         *)
(* The React component is modelled as a state machine: the useState cells  *)
(* and hook results are the variables, every event handler is an action,   *)
(* and every continuation of the async handler handleUploadAndAnalyze      *)
(* (the code between two awaits) is one action, because React 18 batches   *)
(* the setState calls of one synchronous run into one commit.              *)
(* The object store, the job registry and the analysis service are the     *)
(* environment: each answers an outstanding call with one of the outcomes  *)
(* the handler distinguishes.                                              *)
(***************************************************************************)
EXTENDS Integers, Sequences, FiniteSets, TLC

\* JavaScript null / undefined.
NULL == "null"

\* Submissions one behaviour may start.
MaxSubmissions == 2

\* Sign-ins one behaviour may perform.
MaxSessions == 2

\* The accounts that can sign in; "u1" names the account that signs in first.
Users == {"u1", "u2"}

\* ------------------------------------------------------------------------
\* Files the picker can deliver, each a File object identified by its name.
\* ------------------------------------------------------------------------
Files == {"report.pdf", "limit.pdf", "over.pdf", "big.pdf", "big.txt", "notes.txt"}

\* The files the user picks in the upload screen.
PickerFiles == {"report.pdf", "over.pdf", "big.txt", "notes.txt"}

\* file.size in bytes.
FileSize(f) ==
  CASE f = "report.pdf" -> 2 * 1024 * 1024
    [] f = "limit.pdf"  -> 10 * 1024 * 1024
    [] f = "over.pdf"   -> 10 * 1024 * 1024 + 1
    [] f = "big.pdf"    -> 12 * 1024 * 1024
    [] f = "big.txt"    -> 12 * 1024 * 1024
    [] OTHER            -> 1024

\* file.type, the declared media type.
FileType(f) ==
  IF f \in {"big.txt", "notes.txt"} THEN "text/plain" ELSE "application/pdf"

\* Mutant: the size check of lines 62-65 is left out.
validateFile_NoSizeCheck(file, maxSizeMB, allowedTypes) ==
  IF file = NULL
    THEN [valid |-> FALSE, error |-> "No file selected"]
  ELSE IF FileType(file) \notin allowedTypes
    THEN [valid |-> FALSE, error |-> "File type not allowed"]
  ELSE [valid |-> TRUE, error |-> NULL]

\* Mutant: a file of exactly the limit is rejected (>= for > in line 63).
validateFile_StrictLimit(file, maxSizeMB, allowedTypes) ==
  IF file = NULL
    THEN [valid |-> FALSE, error |-> "No file selected"]
  ELSE IF FileSize(file) >= maxSizeMB * 1024 * 1024
    THEN [valid |-> FALSE, error |-> "File size exceeds limit"]
  ELSE IF FileType(file) \notin allowedTypes
    THEN [valid |-> FALSE, error |-> "File type not allowed"]
  ELSE [valid |-> TRUE, error |-> NULL]

\* validateFile(file, { maxSizeMB, allowedTypes }).  fileSizeMB is
\* file.size / (1024 * 1024), so fileSizeMB > maxSizeMB is
\* file.size > maxSizeMB * 1024 * 1024.  The error is the reason reported.
validateFile(file, maxSizeMB, allowedTypes) ==
  IF file = NULL
    THEN [valid |-> FALSE, error |-> "No file selected"]
  ELSE IF FileSize(file) > maxSizeMB * 1024 * 1024
    THEN [valid |-> FALSE, error |-> "File size exceeds limit"]
  ELSE IF FileType(file) \notin allowedTypes
    THEN [valid |-> FALSE, error |-> "File type not allowed"]
  ELSE [valid |-> TRUE, error |-> NULL]

\* The options handleFileChange passes to validateFile.
MaxSizeMB == 10
AllowedTypes == {"application/pdf"}

\* ------------------------------------------------------------------------
\* Query texts: a string is the sequence of its characters.
\* ------------------------------------------------------------------------
Queries == {<<>>, <<" ", "q", " ">>}

\* Length of the longest query text typed in the checks of the effective query.
MaxQueryLen == 4

\* Characters of a query text: a space, a tab and a letter.
QueryChars == {" ", "\t", "q"}

\* The characters String.prototype.trim strips, as far as QueryChars has them.
WhiteSpace == {" ", "\t"}

\* Every text of at most MaxQueryLen characters.
QueryTexts == UNION {[1..n -> QueryChars] : n \in 0..MaxQueryLen}

RECURSIVE TrimStart(_)
TrimStart(s) ==
  IF s # <<>> /\ Head(s) \in WhiteSpace THEN TrimStart(Tail(s)) ELSE s

RECURSIVE TrimEnd(_)
TrimEnd(s) ==
  IF s # <<>> /\ s[Len(s)] \in WhiteSpace THEN TrimEnd(SubSeq(s, 1, Len(s) - 1)) ELSE s

\* String.prototype.trim
Trim(s) == TrimEnd(TrimStart(s))

\* The fixed default of line 169, one token.
DefaultQuery == <<"Analyze financial trends and risks">>

\* Mutant: the text is not trimmed.
FinalQuery_NoTrim(q) == IF q = <<>> THEN DefaultQuery ELSE q

\* userQuery.trim() || "Analyze financial trends and risks"
FinalQuery(q) == IF Trim(q) = <<>> THEN DefaultQuery ELSE Trim(q)

PROGRESS_MESSAGES ==
  [uploading  |-> "Uploading file to secure storage...",
   queueing   |-> "Creating analysis record...",
   processing |-> "Sending to AI agents...",
   completed  |-> "Analysis queued successfully!",
   error      |-> "Upload failed. Please try again."]

\* Mutant: the row is inserted as already processing.
InsertStatus_Processing == "processing"

\* status: "pending" of the INSERT_CHAT mutation.
InsertStatus == "pending"

Statuses == {"pending", "processing", "completed", "failed"}

\* Identifiers the object store and the registry hand out.
FileIdOf(n) == "f" \o ToString(n)
ChatIdOf(n) == "j" \o ToString(n)

RECURSIVE Reverse(_)
Reverse(s) == IF s = <<>> THEN <<>> ELSE Append(Reverse(Tail(s)), Head(s))

VARIABLES
  isAuthenticated,  \* useAuthenticationStatus().isAuthenticated
  userId,           \* useUserId()
  sessions,         \* sign-ins so far
  isProcessing,     \* useState cells of App
  selectedFile,
  userQuery,
  uploadProgress,
  progressMessage,
  selectedChatId,
  fileInputValue,   \* value of the <input id="file-upload"> element, NULL when empty or unmounted
  data,             \* useSubscription data.chats, <<>> when undefined
  subLoading,
  subError,
  pc,               \* the await handleUploadAndAnalyze is suspended at, or "idle"
  resp,             \* the answer to the outstanding call, kind "none" until the callee answered
  job,              \* closure and locals of the running invocation, IdleJob when none runs
  results,          \* how each finished invocation ended, in order of start
  chats,            \* the registry table, in order of created_at
  stored,           \* ids of the objects of the object store
  uploads,          \* upload calls issued
  inserts,          \* insertChat calls issued
  triggers,         \* fetch calls issued
  accepted          \* chat ids the analysis service answered with a success status

vars ==
  <<isAuthenticated, userId, sessions, isProcessing, selectedFile, userQuery, uploadProgress,
    progressMessage, selectedChatId, fileInputValue, data, subLoading, subError,
    pc, resp, job, results, chats, stored, uploads, inserts, triggers, accepted>>

authVars == <<isAuthenticated, userId, sessions>>
draftVars == <<selectedFile, userQuery>>
progressVars == <<uploadProgress, progressMessage>>
subVars == <<data, subLoading, subError>>
serverVars == <<chats, stored, accepted>>
callVars == <<uploads, inserts, triggers>>
flightVars == <<pc, resp, job, results>>

NoResp == [kind |-> "none", id |-> NULL]

\* ------------------------------------------------------------------------
\* Derived values of one render (lines 129-131 and 263-334).
\* ------------------------------------------------------------------------

\* Mutant: the snapshot is not filtered by owner.
myChats_NoFilter == data

\* data?.chats?.filter(chat => chat.user_id === userId) || []
myChats == SelectSeq(data, LAMBDA chat : chat.user_id = userId)

\* Mutant: the job is looked up in the whole snapshot.
selectedChat_FromData ==
  LET found == SelectSeq(data, LAMBDA c : c.id = selectedChatId)
  IN  IF found = <<>> THEN <<>> ELSE <<Head(found)>>

\* Mutant: a job is found only once it is completed.
selectedChat_Completed ==
  LET found == SelectSeq(myChats, LAMBDA c : c.id = selectedChatId /\ c.status = "completed")
  IN  IF found = <<>> THEN <<>> ELSE <<Head(found)>>

\* myChats.find(c => c.id === selectedChatId) || null : <<>> is null, <<c>> is c.
selectedChat ==
  LET found == SelectSeq(myChats, LAMBDA c : c.id = selectedChatId)
  IN  IF found = <<>> THEN <<>> ELSE <<Head(found)>>

\* Mutant: configs has no entry for failed.
StatusBadge_NoFailed(status) ==
  CASE status = "pending"    -> "Pending"
    [] status = "processing" -> "Processing"
    [] status = "completed"  -> "Completed"
    [] OTHER                 -> "Pending"

\* StatusBadge: the label of configs[status] || configs.pending.
StatusBadge(status) ==
  CASE status = "pending"    -> "Pending"
    [] status = "processing" -> "Processing"
    [] status = "completed"  -> "Completed"
    [] status = "failed"     -> "Failed"
    [] OTHER                 -> "Pending"

\* The badge of the job in view (ChatWorkspace, line 1213), NULL when no job is shown.
DisplayedStatus ==
  IF isAuthenticated /\ selectedChat # <<>>
    THEN StatusBadge(selectedChat[1].status)
    ELSE NULL

\* Mutant: the result panel is rendered for every completed job.
ChatPanels_ResultWhenCompleted(chat) ==
  (IF chat.status = "completed" THEN {"result"} ELSE {})
  \cup (IF chat.status = "processing" \/ chat.status = "pending" THEN {"waiting"} ELSE {})
  \cup (IF chat.status = "failed" THEN {"failed"} ELSE {})

\* The panels ChatWorkspace renders below the header (lines 1217-1268), each under
\* its own condition; analysis_result is truthy when it is neither null nor "".
ChatPanels(chat) ==
  (IF chat.status = "completed" /\ chat.analysis_result \notin {NULL, ""}
     THEN {"result"} ELSE {})
  \cup (IF chat.status = "processing" \/ chat.status = "pending" THEN {"waiting"} ELSE {})
  \cup (IF chat.status = "failed" THEN {"failed"} ELSE {})

\* The screen the return statement of App renders.
View ==
  IF ~isAuthenticated THEN "login"
  ELSE IF selectedChat # <<>> THEN "chat"
  ELSE "upload"

\* The panels on display.
ShownPanels == IF View = "chat" THEN ChatPanels(selectedChat[1]) ELSE {}

\* The file input, the textarea and both buttons exist in the upload screen only.
UploadMounted == View = "upload"

\* The input element keeps its value while the upload screen stays mounted and is
\* recreated empty whenever the screen is mounted anew.
InputKeep == IF UploadMounted /\ UploadMounted' THEN fileInputValue ELSE NULL

IdleJob ==
  [file |-> NULL, userId |-> NULL, query |-> <<>>, fileId |-> NULL,
   finalQuery |-> <<>>, chatId |-> NULL]

Init ==
  /\ isAuthenticated = FALSE
  /\ userId = NULL
  /\ sessions = 0
  /\ isProcessing = FALSE
  /\ selectedFile = NULL
  /\ userQuery = <<>>
  /\ uploadProgress = 0
  /\ progressMessage = ""
  /\ selectedChatId = NULL
  /\ fileInputValue = NULL
  /\ data = <<>>
  /\ subLoading = FALSE
  /\ subError = FALSE
  /\ pc = "idle"
  /\ resp = NoResp
  /\ job = IdleJob
  /\ results = <<>>
  /\ chats = <<>>
  /\ stored = <<>>
  /\ uploads = <<>>
  /\ inserts = <<>>
  /\ triggers = <<>>
  /\ accepted = {}

\* ------------------------------------------------------------------------
\* Session (LoginPage, Sign Out button of line 302).
\* ------------------------------------------------------------------------
SignIn(u) ==
  /\ ~isAuthenticated
  /\ sessions < MaxSessions
  /\ sessions = 0 => u = "u1"
  /\ sessions' = sessions + 1
  /\ isAuthenticated' = TRUE
  /\ userId' = u
  /\ subLoading' = TRUE
  /\ UNCHANGED <<data, subError>>
  /\ UNCHANGED <<isProcessing, draftVars, progressVars, selectedChatId, flightVars,
                 serverVars, callVars>>
  /\ fileInputValue' = InputKeep

\* The subscription is skipped while signed out: its result is reset.
SignOut ==
  /\ isAuthenticated
  /\ isAuthenticated' = FALSE
  /\ UNCHANGED sessions
  /\ userId' = NULL
  /\ data' = <<>>
  /\ subLoading' = FALSE
  /\ subError' = FALSE
  /\ UNCHANGED <<isProcessing, draftVars, progressVars, selectedChatId, flightVars,
                 serverVars, callVars>>
  /\ fileInputValue' = InputKeep

\* ------------------------------------------------------------------------
\* The draft (UploadWorkspace, lines 1035-1125) and the sidebar.
\* ------------------------------------------------------------------------

\* Mutant: a rejected pick also drops the selection and the progress message.
handleFileChange_ClearsOnInvalid(file) ==
  /\ UploadMounted
  /\ ~isProcessing
  /\ file # fileInputValue
  /\ LET validation == validateFile(file, MaxSizeMB, AllowedTypes)
     IN  IF ~validation.valid
           THEN /\ fileInputValue' = NULL
                /\ selectedFile' = NULL
                /\ progressMessage' = ""
                /\ UNCHANGED uploadProgress
           ELSE /\ selectedFile' = file
                /\ uploadProgress' = 0
                /\ progressMessage' = ""
                /\ fileInputValue' = file
  /\ UNCHANGED <<authVars, isProcessing, userQuery, selectedChatId, subVars, flightVars,
                 serverVars, callVars>>

\* handleFileChange: the picker put `file` into the input (NULL: the picker was
\* dismissed, e.target.files[0] is undefined) and the change event fired.
handleFileChange(file) ==
  /\ UploadMounted
  /\ ~isProcessing
  /\ file # fileInputValue
  /\ LET validation == validateFile(file, MaxSizeMB, AllowedTypes)
     IN  IF ~validation.valid
           THEN /\ fileInputValue' = NULL
                /\ UNCHANGED <<selectedFile, progressVars>>
           ELSE /\ selectedFile' = file
                /\ uploadProgress' = 0
                /\ progressMessage' = ""
                /\ fileInputValue' = file
  /\ UNCHANGED <<authVars, isProcessing, userQuery, selectedChatId, subVars, flightVars,
                 serverVars, callVars>>

\* onChange of the textarea, rendered when a file is selected.
setUserQuery(q) ==
  /\ UploadMounted
  /\ selectedFile # NULL
  /\ ~isProcessing
  /\ q # userQuery
  /\ userQuery' = q
  /\ UNCHANGED <<authVars, isProcessing, selectedFile, progressVars, selectedChatId,
                 fileInputValue, subVars, flightVars, serverVars, callVars>>

\* onClick of the Cancel button (line 1111): it empties the input element only.
Cancel ==
  /\ UploadMounted
  /\ selectedFile # NULL
  /\ ~isProcessing
  /\ fileInputValue' = NULL
  /\ UNCHANGED <<authVars, isProcessing, draftVars, progressVars, selectedChatId,
                 subVars, flightVars, serverVars, callVars>>

\* Mutant: New Analysis also drops the running submission.
handleNewAnalysis_Aborts ==
  /\ isAuthenticated
  /\ selectedChatId' = NULL
  /\ selectedFile' = NULL
  /\ userQuery' = <<>>
  /\ isProcessing' = FALSE
  /\ pc' = "idle"
  /\ resp' = NoResp
  /\ job' = IdleJob
  /\ results' = IF pc = "idle" THEN results ELSE Append(results, "aborted")
  /\ UNCHANGED <<authVars, progressVars, subVars, serverVars, callVars>>
  /\ fileInputValue' = InputKeep

\* handleNewAnalysis (lines 224-228), the New Analysis button of the sidebar.
handleNewAnalysis ==
  /\ isAuthenticated
  /\ selectedChatId' = NULL
  /\ selectedFile' = NULL
  /\ userQuery' = <<>>
  /\ UNCHANGED <<authVars, isProcessing, progressVars, subVars, flightVars,
                 serverVars, callVars>>
  /\ fileInputValue' = InputKeep

\* onSelectChat of a sidebar entry: the entries are the rows of myChats.
onSelectChat(i) ==
  /\ isAuthenticated
  /\ i \in 1..Len(myChats)
  /\ selectedChatId' = myChats[i].id
  /\ UNCHANGED <<authVars, isProcessing, draftVars, progressVars, subVars, flightVars,
                 serverVars, callVars>>
  /\ fileInputValue' = InputKeep

\* Mutant: Try Again puts the failed job back to pending.
TryAgain_ResetsStatus ==
  /\ View = "chat"
  /\ selectedChat[1].status = "failed"
  /\ chats' = [i \in 1..Len(chats) |->
                 IF chats[i].id = selectedChatId
                   THEN [chats[i] EXCEPT !.status = "pending"]
                   ELSE chats[i]]
  /\ UNCHANGED <<authVars, isProcessing, draftVars, progressVars, selectedChatId,
                 fileInputValue, subVars, flightVars, stored, accepted, callVars>>

\* The Try Again button of a failed job (line 1264) has no onClick.
TryAgain ==
  /\ View = "chat"
  /\ selectedChat[1].status = "failed"
  /\ UNCHANGED vars

\* ------------------------------------------------------------------------
\* handleUploadAndAnalyze (lines 146-222).
\* ------------------------------------------------------------------------

\* The closure and the locals of one invocation.
NewSubmission ==
  [file       |-> selectedFile,   \* selectedFile of the render the handler closes over
   userId     |-> userId,         \* userId of that render
   query      |-> userQuery,      \* userQuery of that render
   fileId     |-> NULL,
   finalQuery |-> <<>>,
   chatId     |-> NULL]

\* Mutant: the button lacks disabled={isProcessing}.
StartAnalysisEnabled_NeverDisabled ==
  /\ UploadMounted
  /\ selectedFile # NULL

\* Mutant: the button is also disabled while the subscription reports an error.
StartAnalysisEnabled_NotOnSubError ==
  /\ UploadMounted
  /\ selectedFile # NULL
  /\ ~isProcessing
  /\ ~subError

\* The Start Analysis button is rendered in the upload screen when a file is
\* selected (line 1070) and is disabled while isProcessing (line 1125).
StartAnalysisEnabled ==
  /\ UploadMounted
  /\ selectedFile # NULL
  /\ ~isProcessing

\* Mutant: the handler lacks the test of line 147.
handleUploadAndAnalyzeCall_NoGuard ==
  /\ Len(uploads) < MaxSubmissions
  /\ isProcessing' = TRUE
  /\ progressMessage' = PROGRESS_MESSAGES.uploading
  /\ uploadProgress' = 10
  /\ job' = NewSubmission
  /\ uploads' = Append(uploads, [sub |-> Len(uploads) + 1, file |-> selectedFile])
  /\ UNCHANGED results
  /\ pc' = "upload"
  /\ resp' = NoResp
  /\ UNCHANGED <<authVars, draftVars, selectedChatId, fileInputValue, subVars,
                 serverVars, inserts, triggers>>

\* handleUploadAndAnalyze up to its first await (lines 147-157): without a file
\* or a user id it alerts and returns.
handleUploadAndAnalyzeCall ==
  /\ Len(uploads) < MaxSubmissions
  /\ IF selectedFile = NULL \/ userId = NULL
       THEN UNCHANGED <<isProcessing, progressVars, flightVars, uploads>>
       ELSE /\ isProcessing' = TRUE
            /\ progressMessage' = PROGRESS_MESSAGES.uploading
            /\ uploadProgress' = 10
            /\ job' = NewSubmission
            /\ uploads' = Append(uploads, [sub |-> Len(uploads) + 1, file |-> selectedFile])
            /\ UNCHANGED results
            /\ pc' = "upload"
            /\ resp' = NoResp
  /\ UNCHANGED <<authVars, draftVars, selectedChatId, fileInputValue, subVars,
                 serverVars, inserts, triggers>>

\* onClick of Start Analysis.
handleUploadAndAnalyze ==
  /\ StartAnalysisEnabled
  /\ handleUploadAndAnalyzeCall

\* Mutant: isProcessing is cleared on the success path only, not in finally.
Fail_NoFinally(kind) ==
  /\ progressMessage' = PROGRESS_MESSAGES.error
  /\ pc' = "idle"
  /\ resp' = NoResp
  /\ job' = IdleJob
  /\ results' = Append(results, kind)
  /\ UNCHANGED <<isProcessing, fileInputValue, draftVars, uploadProgress,
                 selectedChatId, callVars>>

\* Mutant: the failure path resets the progress value and the draft.
Fail_ResetsProgress(kind) ==
  /\ progressMessage' = PROGRESS_MESSAGES.error
  /\ uploadProgress' = 0
  /\ selectedFile' = NULL
  /\ isProcessing' = FALSE
  /\ fileInputValue' = NULL
  /\ pc' = "idle"
  /\ resp' = NoResp
  /\ job' = IdleJob
  /\ results' = Append(results, kind)
  /\ UNCHANGED <<userQuery, selectedChatId, callVars>>

\* catch and finally (lines 213-221): the error is alerted, the message becomes the
\* error message, isProcessing is cleared and the file input is emptied.
Fail(kind) ==
  /\ progressMessage' = PROGRESS_MESSAGES.error
  /\ isProcessing' = FALSE
  /\ fileInputValue' = NULL
  /\ pc' = "idle"
  /\ resp' = NoResp
  /\ job' = IdleJob
  /\ results' = Append(results, kind)
  /\ UNCHANGED <<draftVars, uploadProgress, selectedChatId, callVars>>

\* Mutant: the check of line 164 for a missing file id is left out.
UploadFailed_NoIdCheck(r) == r.kind = "throw" \/ r.kind = "isError"

\* Mutant: the check of line 182 for a missing job id is left out.
RegisterFailed_NoIdCheck(r) == r.kind = "throw" \/ r.kind = "errors"

\* Mutant: the check of response.ok (line 198) is left out.
TriggerFailed_ThrowOnly(r) == r.kind = "throw"

\* upload threw, or uploadResult.isError || uploadResult.error, or no file id
\* (lines 157-164).
UploadFailed(r) == r.kind = "throw" \/ r.kind = "isError" \/ r.id = NULL

\* insertChat threw, or errors, or no insert_chats_one.id (lines 171-182).
RegisterFailed(r) == r.kind = "throw" \/ r.kind = "errors" \/ r.id = NULL

\* fetch threw, or !response.ok (lines 187-201).
TriggerFailed(r) == r.kind = "throw" \/ r.kind = "notok"

\* Mutant: the name is read from the draft as it is when upload has returned.
InsertFileName_OfDraft == selectedFile

\* selectedFile.name of line 174: selectedFile of the render the handler closes
\* over; a File is identified by its name.
InsertFileName == job.file

\* The continuation after `await upload(...)` (lines 157-177).
AfterUpload ==
  /\ pc = "upload"
  /\ resp.kind # "none"
  /\ IF UploadFailed(resp)
       THEN Fail("upload_failed")
     ELSE LET fileId == resp.id
              finalQuery == FinalQuery(job.query)
          IN  /\ uploadProgress' = 50
              /\ progressMessage' = PROGRESS_MESSAGES.queueing
              /\ job' = [job EXCEPT !.fileId = fileId, !.finalQuery = finalQuery]
              /\ inserts' = Append(inserts, [sub       |-> Len(uploads),
                                             file_id   |-> fileId,
                                             file_name |-> InsertFileName,
                                             query     |-> finalQuery])
              /\ pc' = "register"
              /\ resp' = NoResp
              /\ UNCHANGED <<isProcessing, draftVars, selectedChatId, fileInputValue,
                             uploads, triggers, results>>
  /\ UNCHANGED <<authVars, subVars, serverVars>>

\* Mutant: a retry triggers the job of the first attempt again.
AfterInsertChat_TriggersFirstRow ==
  /\ pc = "register"
  /\ resp.kind # "none"
  /\ IF RegisterFailed(resp)
       THEN Fail("register_failed")
     ELSE LET chatId == resp.id
          IN  /\ uploadProgress' = 75
              /\ progressMessage' = PROGRESS_MESSAGES.processing
              /\ job' = [job EXCEPT !.chatId = chatId]
              /\ triggers' = Append(triggers, [sub     |-> Len(uploads),
                                               chat_id |-> chats[1].id,
                                               file_id |-> job.fileId,
                                               user_id |-> job.userId,
                                               query   |-> job.finalQuery])
              /\ pc' = "trigger"
              /\ resp' = NoResp
              /\ UNCHANGED <<isProcessing, draftVars, selectedChatId, fileInputValue,
                             uploads, inserts, results>>
  /\ UNCHANGED <<authVars, subVars, serverVars>>

\* The continuation after `await insertChat(...)` (lines 171-196).
AfterInsertChat ==
  /\ pc = "register"
  /\ resp.kind # "none"
  /\ IF RegisterFailed(resp)
       THEN Fail("register_failed")
     ELSE LET chatId == resp.id
          IN  /\ uploadProgress' = 75
              /\ progressMessage' = PROGRESS_MESSAGES.processing
              /\ job' = [job EXCEPT !.chatId = chatId]
              /\ triggers' = Append(triggers, [sub     |-> Len(uploads),
                                               chat_id |-> chatId,
                                               file_id |-> job.fileId,
                                               user_id |-> job.userId,
                                               query   |-> job.finalQuery])
              /\ pc' = "trigger"
              /\ resp' = NoResp
              /\ UNCHANGED <<isProcessing, draftVars, selectedChatId, fileInputValue,
                             uploads, inserts, results>>
  /\ UNCHANGED <<authVars, subVars, serverVars>>

\* Mutant: the new job is selected only when nothing else is selected.
Complete_KeepsSelection ==
  /\ uploadProgress' = 0
  /\ progressMessage' = ""
  /\ selectedChatId' = IF selectedChatId = NULL THEN job.chatId ELSE selectedChatId
  /\ selectedFile' = NULL
  /\ userQuery' = <<>>
  /\ isProcessing' = FALSE
  /\ fileInputValue' = NULL
  /\ pc' = "idle"
  /\ resp' = NoResp
  /\ job' = IdleJob
  /\ results' = Append(results, "success")
  /\ UNCHANGED callVars

\* Mutant: the draft is not cleared on success (lines 208-209 left out).
Complete_KeepsDraft ==
  /\ uploadProgress' = 0
  /\ progressMessage' = ""
  /\ selectedChatId' = job.chatId
  /\ isProcessing' = FALSE
  /\ fileInputValue' = NULL
  /\ pc' = "idle"
  /\ resp' = NoResp
  /\ job' = IdleJob
  /\ results' = Append(results, "success")
  /\ UNCHANGED <<draftVars, callVars>>

\* The success path (lines 203-211) and finally (lines 217-221).  The setters run
\* in one batch: the progress ends at 0 and the message at "" (100 and the
\* completed message are overwritten before any render).
Complete ==
  /\ uploadProgress' = 0
  /\ progressMessage' = ""
  /\ selectedChatId' = job.chatId
  /\ selectedFile' = NULL
  /\ userQuery' = <<>>
  /\ isProcessing' = FALSE
  /\ fileInputValue' = NULL
  /\ pc' = "idle"
  /\ resp' = NoResp
  /\ job' = IdleJob
  /\ results' = Append(results, "success")
  /\ UNCHANGED callVars

\* The continuation after `await fetch(...)` (lines 187-221).
AfterFetch ==
  /\ pc = "trigger"
  /\ resp.kind # "none"
  /\ IF TriggerFailed(resp) THEN Fail("trigger_failed") ELSE Complete
  /\ UNCHANGED <<authVars, subVars, serverVars>>

\* ------------------------------------------------------------------------
\* The callees: object store (useFileUpload), registry (INSERT_CHAT) and the
\* analysis service (RENDER_API_URL).
\* ------------------------------------------------------------------------

\* upload({ file }) settles: the object is stored and its id returned, or the
\* result carries isError, or no id, or the call throws.
ObjectStoreResponds(kind) ==
  /\ pc = "upload"
  /\ resp.kind = "none"
  /\ IF kind = "ok"
       THEN LET id == FileIdOf(Len(stored) + 1)
            IN  /\ stored' = Append(stored, id)
                /\ resp' = [kind |-> "ok", id |-> id]
       ELSE /\ resp' = [kind |-> kind, id |-> NULL]
            /\ UNCHANGED stored
  /\ UNCHANGED <<authVars, isProcessing, draftVars, progressVars, selectedChatId,
                 fileInputValue, subVars, pc, job, results, chats, accepted, callVars>>

\* insert_chats_one settles: a row is inserted for the session's user with the
\* variables of the call and status "pending", or the mutation returns errors, or
\* no row, or the call throws.  Without a session no row is inserted.
RegistryResponds(kind) ==
  /\ pc = "register"
  /\ resp.kind = "none"
  /\ LET call == inserts[Len(inserts)]
         id == ChatIdOf(Len(chats) + 1)
     IN  IF kind = "ok"
           THEN /\ isAuthenticated
                /\ chats' = Append(chats, [id              |-> id,
                                           user_id         |-> userId,
                                           file_id         |-> call.file_id,
                                           file_name       |-> call.file_name,
                                           status          |-> InsertStatus,
                                           analysis_result |-> NULL,
                                           query           |-> call.query])
                /\ resp' = [kind |-> "ok", id |-> id]
           ELSE /\ resp' = [kind |-> kind, id |-> NULL]
                /\ UNCHANGED chats
  /\ UNCHANGED <<authVars, isProcessing, draftVars, progressVars, selectedChatId,
                 fileInputValue, subVars, pc, job, results, stored, accepted, callVars>>

\* The POST settles: response.ok, a non-success status, or a transport error.
ServiceResponds(kind) ==
  /\ pc = "trigger"
  /\ resp.kind = "none"
  /\ resp' = [kind |-> kind, id |-> NULL]
  /\ accepted' = IF kind = "ok"
                   THEN accepted \cup {triggers[Len(triggers)].chat_id}
                   ELSE accepted
  /\ UNCHANGED <<authVars, isProcessing, draftVars, progressVars, selectedChatId,
                 fileInputValue, subVars, pc, job, results, chats, stored, callVars>>

\* The analysis service works on a job it accepted and writes status and result:
\* pending -> processing -> completed | failed, or directly to a final status; a
\* result is written with status completed and only then.
ServiceUpdates(i, status, result) ==
  /\ i \in 1..Len(chats)
  /\ chats[i].id \in accepted
  /\ \/ chats[i].status = "pending" /\ status \in {"processing", "completed", "failed"}
     \/ chats[i].status = "processing" /\ status \in {"completed", "failed"}
  /\ result # NULL <=> status = "completed"
  /\ chats' = [chats EXCEPT ![i].status = status, ![i].analysis_result = result]
  /\ UNCHANGED <<authVars, isProcessing, draftVars, progressVars, selectedChatId,
                 fileInputValue, subVars, flightVars, stored, accepted, callVars>>

\* ------------------------------------------------------------------------
\* useSubscription(GET_MY_HISTORY_SUB) (lines 122-127).
\* ------------------------------------------------------------------------

\* Mutant: no snapshot is taken while a submission is in flight.
SubscriptionDelivers_NotInFlight ==
  /\ isAuthenticated
  /\ ~subError
  /\ pc = "idle"
  /\ subLoading \/ data # Reverse(chats)
  /\ data' = Reverse(chats)
  /\ subLoading' = FALSE
  /\ UNCHANGED <<authVars, isProcessing, draftVars, progressVars, selectedChatId,
                 subError, flightVars, serverVars, callVars>>
  /\ fileInputValue' = InputKeep

\* The server pushes the table, ordered by created_at descending.
SubscriptionDelivers ==
  /\ isAuthenticated
  /\ ~subError
  /\ subLoading \/ data # Reverse(chats)
  /\ data' = Reverse(chats)
  /\ subLoading' = FALSE
  /\ UNCHANGED <<authVars, isProcessing, draftVars, progressVars, selectedChatId,
                 subError, flightVars, serverVars, callVars>>
  /\ fileInputValue' = InputKeep

\* The channel fails: the hook reports the error and keeps or drops its data.
SubscriptionFails(keep) ==
  /\ isAuthenticated
  /\ ~subError
  /\ subError' = TRUE
  /\ subLoading' = FALSE
  /\ data' = IF keep THEN data ELSE <<>>
  /\ UNCHANGED <<authVars, isProcessing, draftVars, progressVars, selectedChatId,
                 flightVars, serverVars, callVars>>
  /\ fileInputValue' = InputKeep

Next ==
  \/ \E u \in Users : SignIn(u)
  \/ SignOut
  \/ \E f \in PickerFiles \cup {NULL} : handleFileChange(f)
  \/ \E q \in Queries : setUserQuery(q)
  \/ Cancel
  \/ handleNewAnalysis
  \/ \E i \in 1..MaxSubmissions : onSelectChat(i)
  \/ TryAgain
  \/ handleUploadAndAnalyze
  \/ AfterUpload
  \/ AfterInsertChat
  \/ AfterFetch
  \/ \E kind \in {"ok", "isError", "noid", "throw"} : ObjectStoreResponds(kind)
  \/ \E kind \in {"ok", "errors", "noid", "throw"} : RegistryResponds(kind)
  \/ \E kind \in {"ok", "notok", "throw"} : ServiceResponds(kind)
  \/ \E i \in 1..MaxSubmissions, status \in Statuses, result \in {NULL, "report"} :
        ServiceUpdates(i, status, result)
  \/ SubscriptionDelivers
  \/ \E keep \in BOOLEAN : SubscriptionFails(keep)

Spec == Init /\ [][Next]_vars

\* Every outstanding call settles and every settled await resumes.
FairSpec ==
  /\ Spec
  /\ WF_vars(\E kind \in {"ok", "isError", "noid", "throw"} : ObjectStoreResponds(kind))
  /\ WF_vars(\E kind \in {"ok", "errors", "noid", "throw"} : RegistryResponds(kind))
  /\ WF_vars(\E kind \in {"ok", "notok", "throw"} : ServiceResponds(kind))
  /\ WF_vars(AfterUpload)
  /\ WF_vars(AfterInsertChat)
  /\ WF_vars(AfterFetch)

\* The draft of the upload screen without submissions: sessions, the picker with
\* every file of Files, the query text, Cancel, New Analysis and the subscription.
DraftNext ==
  \/ \E u \in Users : SignIn(u)
  \/ SignOut
  \/ \E f \in Files \cup {NULL} : handleFileChange(f)
  \/ \E q \in Queries : setUserQuery(q)
  \/ Cancel
  \/ handleNewAnalysis
  \/ SubscriptionDelivers
  \/ \E keep \in BOOLEAN : SubscriptionFails(keep)

DraftSpec == Init /\ [][DraftNext]_vars

\* ------------------------------------------------------------------------
\* The component FileUpload of src/src/FileUpload.js: a file input whose change
\* handler uploads the file and inserts a row.  It keeps no state, so its
\* invocations do not interact; they are run one after the other.
\* ------------------------------------------------------------------------

\* status: "processing" of the INSERT_CHAT mutation of FileUpload.js.
FileUploadInsertStatus == "processing"

\* The component is mounted with the id of the signed-in user as its prop.
FileUploadInit ==
  /\ isAuthenticated = TRUE
  /\ userId \in Users
  /\ sessions = 1
  /\ isProcessing = FALSE
  /\ selectedFile = NULL
  /\ userQuery = <<>>
  /\ uploadProgress = 0
  /\ progressMessage = ""
  /\ selectedChatId = NULL
  /\ fileInputValue = NULL
  /\ data = <<>>
  /\ subLoading = FALSE
  /\ subError = FALSE
  /\ pc = "idle"
  /\ resp = NoResp
  /\ job = IdleJob
  /\ results = <<>>
  /\ chats = <<>>
  /\ stored = <<>>
  /\ uploads = <<>>
  /\ inserts = <<>>
  /\ triggers = <<>>
  /\ accepted = {}

\* handleFileChange of FileUpload up to its first await (lines 19-24): no file is
\* a return, any file is uploaded as it is.
FileUploadChange(file) ==
  /\ pc = "idle"
  /\ Len(uploads) < MaxSubmissions
  /\ file # fileInputValue
  /\ fileInputValue' = file
  /\ IF file = NULL
       THEN UNCHANGED <<flightVars, uploads>>
       ELSE /\ job' = [IdleJob EXCEPT !.file = file, !.userId = userId]
            /\ uploads' = Append(uploads, [sub |-> Len(uploads) + 1, file |-> file])
            /\ pc' = "upload"
            /\ resp' = NoResp
            /\ UNCHANGED results
  /\ UNCHANGED <<authVars, isProcessing, draftVars, progressVars, selectedChatId,
                 subVars, serverVars, inserts, triggers>>

\* The handler has returned or its promise is rejected.
FileUploadEnds(kind) ==
  /\ pc' = "idle"
  /\ resp' = NoResp
  /\ job' = IdleJob
  /\ results' = Append(results, kind)

\* The continuation after `await upload({ file })` (lines 24-39): an error is
\* alerted and the handler returns; reading fileMetadata.id of a result without
\* fileMetadata throws; else the row is inserted for the prop userId.
FileUploadAfterUpload ==
  /\ pc = "upload"
  /\ resp.kind # "none"
  /\ IF resp.kind # "ok"
       THEN /\ FileUploadEnds("upload_failed")
            /\ UNCHANGED inserts
       ELSE /\ job' = [job EXCEPT !.fileId = resp.id]
            /\ inserts' = Append(inserts, [sub       |-> Len(uploads),
                                           user_id   |-> job.userId,
                                           file_id   |-> resp.id,
                                           file_name |-> job.file,
                                           query     |-> <<>>])
            /\ pc' = "register"
            /\ resp' = NoResp
            /\ UNCHANGED results
  /\ UNCHANGED <<authVars, isProcessing, draftVars, progressVars, selectedChatId,
                 fileInputValue, subVars, serverVars, uploads, triggers>>

\* insert_chats_one of FileUpload.js settles: the row is inserted with the user id
\* of the call, no query and status "processing", or the call throws.
FileUploadRegistryResponds(kind) ==
  /\ pc = "register"
  /\ resp.kind = "none"
  /\ LET call == inserts[Len(inserts)]
         id == ChatIdOf(Len(chats) + 1)
     IN  IF kind = "ok"
           THEN /\ chats' = Append(chats, [id              |-> id,
                                           user_id         |-> call.user_id,
                                           file_id         |-> call.file_id,
                                           file_name       |-> call.file_name,
                                           status          |-> FileUploadInsertStatus,
                                           analysis_result |-> NULL,
                                           query           |-> call.query])
                /\ resp' = [kind |-> "ok", id |-> id]
           ELSE /\ resp' = [kind |-> kind, id |-> NULL]
                /\ UNCHANGED chats
  /\ UNCHANGED <<authVars, isProcessing, draftVars, progressVars, selectedChatId,
                 fileInputValue, subVars, pc, job, results, stored, accepted, callVars>>

\* The continuation after `await insertChat(...)` (lines 32-43): the file id is
\* logged, no call to the analysis service is made.
FileUploadAfterInsertChat ==
  /\ pc = "register"
  /\ resp.kind # "none"
  /\ FileUploadEnds(IF resp.kind = "ok" THEN "success" ELSE "register_failed")
  /\ UNCHANGED <<authVars, isProcessing, draftVars, progressVars, selectedChatId,
                 fileInputValue, subVars, serverVars, callVars>>

FileUploadNext ==
  \/ \E f \in Files \cup {NULL} : FileUploadChange(f)
  \/ FileUploadAfterUpload
  \/ FileUploadAfterInsertChat
  \/ \E kind \in {"ok", "isError", "noid", "throw"} : ObjectStoreResponds(kind)
  \/ \E kind \in {"ok", "throw"} : FileUploadRegistryResponds(kind)

FileUploadSpec == FileUploadInit /\ [][FileUploadNext]_vars

\* The handler handleUploadAndAnalyze called in any state of the draft and of
\* the session, not only through its button: signed in or signed out, with or
\* without a selected file.
HandlerInit ==
  /\ isAuthenticated \in BOOLEAN
  /\ userId = IF isAuthenticated THEN "u1" ELSE NULL
  /\ sessions = 1
  /\ isProcessing = FALSE
  /\ selectedFile \in {NULL, "report.pdf"}
  /\ userQuery \in IF selectedFile = NULL THEN {<<>>} ELSE Queries
  /\ uploadProgress = 0
  /\ progressMessage = ""
  /\ selectedChatId = NULL
  /\ fileInputValue \in {NULL, selectedFile}
  /\ data = <<>>
  /\ subLoading = isAuthenticated
  /\ subError = FALSE
  /\ pc = "idle"
  /\ resp = NoResp
  /\ job = IdleJob
  /\ results = <<>>
  /\ chats = <<>>
  /\ stored = <<>>
  /\ uploads = <<>>
  /\ inserts = <<>>
  /\ triggers = <<>>
  /\ accepted = {}

\* A call of the handler while no invocation is running.
HandlerCall == pc = "idle" /\ handleUploadAndAnalyzeCall

HandlerNext ==
  \/ HandlerCall
  \/ AfterUpload
  \/ AfterInsertChat
  \/ AfterFetch
  \/ \E kind \in {"ok", "isError", "noid", "throw"} : ObjectStoreResponds(kind)
  \/ \E kind \in {"ok", "errors", "noid", "throw"} : RegistryResponds(kind)
  \/ \E kind \in {"ok", "notok", "throw"} : ServiceResponds(kind)

HandlerSpec == HandlerInit /\ [][HandlerNext]_vars

\* One user with a selected file and a typed query text, and the steps of the
\* submissions of this draft.
QueryInit ==
  /\ isAuthenticated = TRUE
  /\ userId = "u1"
  /\ sessions = 1
  /\ isProcessing = FALSE
  /\ selectedFile = "report.pdf"
  /\ userQuery \in QueryTexts
  /\ uploadProgress = 0
  /\ progressMessage = ""
  /\ selectedChatId = NULL
  /\ fileInputValue = "report.pdf"
  /\ data = <<>>
  /\ subLoading = TRUE
  /\ subError = FALSE
  /\ pc = "idle"
  /\ resp = NoResp
  /\ job = IdleJob
  /\ results = <<>>
  /\ chats = <<>>
  /\ stored = <<>>
  /\ uploads = <<>>
  /\ inserts = <<>>
  /\ triggers = <<>>
  /\ accepted = {}

QueryNext ==
  \/ handleUploadAndAnalyze
  \/ AfterUpload
  \/ AfterInsertChat
  \/ AfterFetch
  \/ \E kind \in {"ok", "isError", "noid", "throw"} : ObjectStoreResponds(kind)
  \/ \E kind \in {"ok", "errors", "noid", "throw"} : RegistryResponds(kind)
  \/ \E kind \in {"ok", "notok", "throw"} : ServiceResponds(kind)

QuerySpec == QueryInit /\ [][QueryNext]_vars

\* ------------------------------------------------------------------------
\* Properties
\* ------------------------------------------------------------------------

Range(seq) == {seq[i] : i \in 1..Len(seq)}

Last(seq) == seq[Len(seq)]

\* The rows of the registry created from the stored object fileId.
RowsOfFile(fileId) == {i \in 1..Len(chats) : chats[i].file_id = fileId}

\* C1: within one submission the insertChat call is issued only by the step that
\* received a file id from upload, the fetch call only by the step that received a
\* job id from insertChat, and when the fetch is issued, and when the submission
\* ends in success, the registry holds exactly one row created by this submission,
\* the row with the returned job id; at the issue of the fetch its status is pending.
C1_Step ==
  /\ inserts' # inserts =>
       /\ pc = "upload" /\ resp.kind = "ok" /\ resp.id \in Range(stored)
       /\ inserts' = Append(inserts, Last(inserts'))
       /\ Last(inserts').sub = Len(uploads)
       /\ Last(inserts').file_id = resp.id
       /\ RowsOfFile(resp.id) = {}
  /\ triggers' # triggers =>
       /\ pc = "register" /\ resp.kind = "ok"
       /\ triggers' = Append(triggers, Last(triggers'))
       /\ Last(triggers').sub = Len(uploads)
       /\ Last(inserts).sub = Len(uploads)
       /\ Cardinality(RowsOfFile(job.fileId)) = 1
       /\ \A i \in RowsOfFile(job.fileId) :
            /\ chats[i].id = resp.id
            /\ chats[i].id = Last(triggers').chat_id
            /\ chats[i].status = "pending"
  /\ (pc = "trigger" /\ resp.kind = "ok" /\ pc' = "idle") =>
       /\ Cardinality(RowsOfFile(job.fileId)) = 1
       /\ \A i \in RowsOfFile(job.fileId) : chats[i].id = Last(triggers).chat_id
       /\ Last(triggers).sub = Len(uploads)

C1_Sequential == [][C1_Step]_vars

C1_Witness ==
  /\ results # <<>> /\ Last(results) = "success"
  /\ Len(chats) = 1 /\ Len(triggers) = 1

\* C2: when the upload of a submission fails (the store reports an error, the call
\* throws, or the result carries no file id), the submission ends there: the step
\* that receives the answer issues no insertChat and no fetch, the registry is not
\* written, and no call of a submission that ended at its upload was ever issued.
C2_Step ==
  (pc = "upload" /\ resp.kind \in {"isError", "throw", "noid"} /\ pc' # pc) =>
     /\ pc' = "idle"
     /\ UNCHANGED <<chats, inserts, triggers>>

C2_NoWrites ==
  \A k \in 1..Len(results) :
    results[k] = "upload_failed" =>
      /\ \A c \in Range(inserts) : c.sub # k
      /\ \A t \in Range(triggers) : t.sub # k

C2_UploadFailure == [][C2_Step]_vars /\ [](C2_NoWrites /\ Len(chats) <= Len(inserts))

C2_Witness ==
  /\ results # <<>> /\ Last(results) = "upload_failed"
  /\ chats = <<>> /\ triggers = <<>>

\* C3: when the registration of a submission fails (insertChat throws, returns
\* errors, or returns no job id), the submission ends there and issues no fetch.
C3_Step ==
  (pc = "register" /\ resp.kind \in {"errors", "throw", "noid"} /\ pc' # pc) =>
     /\ pc' = "idle"
     /\ UNCHANGED triggers

C3_NoTrigger ==
  \A k \in 1..Len(results) :
    results[k] = "register_failed" => \A t \in Range(triggers) : t.sub # k

C3_RegisterFailure == [][C3_Step]_vars /\ []C3_NoTrigger

C3_Witness ==
  /\ results # <<>> /\ Last(results) = "register_failed"
  /\ triggers = <<>> /\ inserts # <<>>

\* C4: when the fetch of a submission fails after its registration succeeded, the
\* failing step reports the failure (error message, isProcessing cleared, no
\* navigation) and leaves the registry untouched; from then on the job's row is
\* still in the registry as inserted, with status pending and no result, and the
\* only fetch that ever carried its id is the failed one, also after a retry.
C4_Step ==
  (pc = "trigger" /\ resp.kind \in {"notok", "throw"} /\ pc' # pc) =>
     /\ pc' = "idle" /\ ~isProcessing'
     /\ progressMessage' = PROGRESS_MESSAGES.error
     /\ Last(results') = "trigger_failed"
     /\ UNCHANGED <<chats, triggers, selectedChatId>>

C4_Orphans ==
  \A t \in Range(triggers) :
    (t.sub <= Len(results) /\ t.chat_id \notin accepted) =>
       /\ results[t.sub] = "trigger_failed"
       /\ \E i \in 1..Len(chats) :
            /\ chats[i].id = t.chat_id
            /\ chats[i].status = "pending"
            /\ chats[i].analysis_result = NULL
            /\ chats[i].file_id = t.file_id
            /\ chats[i].query = t.query
       /\ Cardinality({j \in 1..Len(triggers) : triggers[j].chat_id = t.chat_id}) = 1

TooLargeOrWrongType(f) ==
  FileSize(f) > 10 * 1024 * 1024 \/ FileType(f) # "application/pdf"

C5_OnlyValidFilesUploaded ==
  /\ \A f \in Files :
       TooLargeOrWrongType(f) => ~validateFile(f, MaxSizeMB, AllowedTypes).valid
  /\ selectedFile # NULL => ~TooLargeOrWrongType(selectedFile)
  /\ \A u \in Range(uploads) : u.file \in Files /\ ~TooLargeOrWrongType(u.file)
  /\ \A c \in Range(inserts) : c.file_name \in Files /\ ~TooLargeOrWrongType(c.file_name)

\* An upload is under way for the selected file; the input element was emptied
\* before (a rejected selection empties it).
C5_Witness ==
  /\ pc = "upload" /\ Last(uploads).file = "report.pdf"
  /\ selectedFile = "report.pdf" /\ fileInputValue = NULL

\* C6: whenever a job is displayed, its badge is the label of the status that the
\* row with the selected id has in data, the latest snapshot, whatever the registry
\* holds by now and whatever the progress state of a submission is.
StatusLabel ==
  [pending |-> "Pending", processing |-> "Processing", completed |-> "Completed",
   failed |-> "Failed"]

C6_DisplayedStatusFromSnapshot ==
  /\ View = "chat" => DisplayedStatus # NULL
  /\ DisplayedStatus # NULL =>
       \E i \in 1..Len(data) :
         /\ data[i].id = selectedChatId
         /\ data[i].user_id = userId
         /\ DisplayedStatus = StatusLabel[data[i].status]

\* A failed job is displayed from a snapshot while a submission is in flight.
C6_Witness ==
  /\ View = "chat" /\ DisplayedStatus = "Failed"
  /\ isProcessing /\ progressMessage = PROGRESS_MESSAGES.processing

\* A displayed status older than the registry's: the snapshot is stale.
C6_WitnessStale ==
  /\ View = "chat" /\ DisplayedStatus = "Pending"
  /\ \E i \in 1..Len(chats) : chats[i].id = selectedChatId /\ chats[i].status = "completed"

\* C7 (as claimed): a selected id that is not among the user's jobs of the snapshot
\* shows a loading state for that job.
C7_LoadingStateForMissingJob ==
  (isAuthenticated /\ selectedChatId # NULL /\ selectedChat = <<>>) => View = "loading"

\* C8: at most one submission is in flight: isProcessing is set exactly while the
\* handler is suspended at an await, every started upload but the running one has
\* ended, and the Start Analysis button is not available while one is running.
C8_SingleFlight ==
  /\ isProcessing <=> pc # "idle"
  /\ Len(uploads) = Len(results) + (IF pc # "idle" THEN 1 ELSE 0)
  /\ pc # "idle" => ~StartAnalysisEnabled

\* The upload screen with a selected file is on display while a submission runs.
C8_Witness ==
  /\ pc = "register" /\ UploadMounted /\ selectedFile # NULL
  /\ Len(uploads) = 2

\* C9: when every call settles, every running submission ends with isProcessing
\* cleared, and every step that ends a submission, by success or by a failure at
\* any of the three calls, leaves isProcessing cleared, so that Start Analysis is
\* enabled again wherever the upload screen shows a selected file.
C9_EndStep ==
  (pc # "idle" /\ pc' = "idle") =>
     /\ ~isProcessing'
     /\ (UploadMounted' /\ selectedFile' # NULL) => StartAnalysisEnabled'

C9_SubmissionEnds == (isProcessing ~> ~isProcessing) /\ [][C9_EndStep]_vars

\* A second submission was started after the first one failed.
C9_Witness ==
  /\ Len(results) = 1 /\ results[1] \in {"upload_failed", "register_failed", "trigger_failed"}
  /\ Len(uploads) = 2 /\ isProcessing

\* C10: the step that ends a submission in success leaves no selected file, an
\* empty query text, and the selected job id equal to the id that the registry gave
\* to the row of this submission and that insertChat returned.
C10_Step ==
  (pc = "trigger" /\ resp.kind = "ok" /\ pc' # pc) =>
     /\ selectedFile' = NULL
     /\ userQuery' = <<>>
     /\ selectedChatId' = job.chatId
     /\ RowsOfFile(job.fileId) # {}
     /\ \A i \in RowsOfFile(job.fileId) : chats[i].id = selectedChatId'

C10_SuccessState == [][C10_Step]_vars

\* A submission with a query text has just succeeded.
C10_Witness ==
  /\ results # <<>> /\ Last(results) = "success"
  /\ Last(inserts).query = <<"q">>
  /\ selectedFile = NULL /\ userQuery = <<>> /\ selectedChatId = Last(triggers).chat_id

\* C11: the query of every insertChat call is the query text typed when the
\* submission was started without its leading and trailing whitespace, inner
\* whitespace kept, and it is the fixed default when that text is empty or
\* whitespace only; the fetch of the submission carries the same query.
IsBlank(q) == \A i \in 1..Len(q) : q[i] \in WhiteSpace

\* r is q without its surrounding whitespace.
IsTrimmed(q, r) ==
  /\ r # <<>>
  /\ r[1] \notin WhiteSpace /\ r[Len(r)] \notin WhiteSpace
  /\ \E i \in 1..Len(q) :
       /\ i + Len(r) - 1 <= Len(q)
       /\ r = SubSeq(q, i, i + Len(r) - 1)
       /\ IsBlank(SubSeq(q, 1, i - 1))
       /\ IsBlank(SubSeq(q, i + Len(r), Len(q)))

IsEffectiveQuery(q, r) ==
  IF IsBlank(q) THEN r = <<"Analyze financial trends and risks">> ELSE IsTrimmed(q, r)

C11_EffectiveQuery ==
  /\ pc # "idle" => job.query = userQuery
  /\ pc \in {"register", "trigger"} =>
       /\ Last(inserts).sub = Len(uploads)
       /\ IsEffectiveQuery(job.query, Last(inserts).query)
  /\ pc = "trigger" => Last(triggers).query = Last(inserts).query

\* A text with surrounding and inner whitespace was registered, after a
\* whitespace-only one could have been: the retry of a failed submission.
C11_Witness ==
  /\ pc = "register" /\ Len(inserts) = 2
  /\ userQuery = <<"\t", "q", " ", "q">>
  /\ Last(inserts).query = <<"q", " ", "q">>

\* A whitespace-only text was registered as the default.
C11_WitnessDefault ==
  /\ pc = "register"
  /\ userQuery = <<" ", "\t">>
  /\ Last(inserts).query = DefaultQuery

\* C12 (as claimed): every submission issues at most one fetch, and the fetch
\* carries the job id insertChat returned to this submission, the file id upload
\* returned to it, the id of the current user, and the query of its insertChat call.
C12_Step ==
  triggers' # triggers =>
     /\ triggers' = Append(triggers, Last(triggers'))
     /\ \A t \in Range(triggers) : t.sub # Last(triggers').sub
     /\ Last(triggers').chat_id = resp.id
     /\ Last(triggers').file_id = job.fileId
     /\ job.fileId = Last(inserts).file_id
     /\ Last(triggers').query = Last(inserts).query
     /\ Last(triggers').user_id = userId

C12_TriggerPayload == [][C12_Step]_vars

\* The same with the user id of the render Start Analysis was clicked in.
C12_StepOfClosure ==
  triggers' # triggers =>
     /\ triggers' = Append(triggers, Last(triggers'))
     /\ \A t \in Range(triggers) : t.sub # Last(triggers').sub
     /\ Last(triggers').chat_id = resp.id
     /\ Last(triggers').file_id = job.fileId
     /\ job.fileId = Last(inserts).file_id
     /\ Last(triggers').query = Last(inserts).query
     /\ Last(triggers').user_id = job.userId

C12_TriggerPayloadOfClosure == [][C12_StepOfClosure]_vars

\* A fetch names a user who does not own the job it names.
C12_OwnerMismatch ==
  \E t \in Range(triggers) : \E i \in 1..Len(chats) :
    chats[i].id = t.chat_id /\ chats[i].user_id # t.user_id

\* C13: the job list of the UI holds exactly the rows of data, the snapshot the
\* subscription delivered last, that are owned by the current user, each once and
\* in the order of the snapshot; the snapshot itself lists rows of the registry
\* from the newest to the oldest.
OwnRows == {i \in 1..Len(data) : data[i].user_id = userId}

\* The position in data of the k-th row owned by the current user.
OwnRow(k) == CHOOSE i \in OwnRows : Cardinality({j \in OwnRows : j < i}) = k - 1

C14_Step ==
  chats' # chats =>
    \/ /\ RegistryResponds("ok")
       /\ Len(chats') = Len(chats) + 1
       /\ SubSeq(chats', 1, Len(chats)) = chats
    \/ /\ \E i \in 1..Len(chats), status \in Statuses, result \in {NULL, "report"} :
            ServiceUpdates(i, status, result)
       /\ Len(chats') = Len(chats)
       /\ \A i \in 1..Len(chats) :
            chats'[i] = [chats[i] EXCEPT !.status = chats'[i].status,
                                         !.analysis_result = chats'[i].analysis_result]
       /\ UNCHANGED <<isProcessing, draftVars, progressVars, selectedChatId,
                      fileInputValue, flightVars, callVars>>

C14_OnlyInsertByClient == [][C14_Step]_vars

\* A failed job is on display with its Try Again button, after a later submission
\* has run, and the registry holds it as the service left it.
C14_Witness ==
  /\ View = "chat" /\ selectedChat[1].status = "failed"
  /\ Len(results) = 2
  /\ \E i \in 1..Len(chats) :
       chats[i].id = selectedChatId /\ chats[i].status = "failed"

\* C15 (as claimed): every row a client inserts has status pending when it is
\* inserted, whichever component inserts it.
C15_Step == Len(chats') > Len(chats) => Last(chats').status = "pending"

C15_InitialStatusPending == [][C15_Step]_vars

\* C16: validateFile is valid exactly for a present file of at most
\* maxSizeMB * 1024 * 1024 bytes and of an allowed type; the reason of an invalid
\* result is no file, else too large, else unsupported type, so a file both too
\* large and of a wrong type is too large, a 12 MB PDF under a 10 MB limit is too
\* large and a PDF of exactly 10 MB is valid; the file the upload screen holds as
\* selected passed this validation.
SizeLimits == {1, 2, 10, 12}

TypeSets == SUBSET {"application/pdf", "text/plain"}

C16_Case(f, m, T) ==
  LET v == validateFile(f, m, T)
      present == f # NULL
      fits == FileSize(f) <= m * 1024 * 1024
      allowed == FileType(f) \in T
  IN  /\ v.valid <=> (present /\ fits /\ allowed)
      /\ v.valid => v.error = NULL
      /\ ~present => v.error = "No file selected"
      /\ (present /\ ~fits) => v.error = "File size exceeds limit"
      /\ (present /\ fits /\ ~allowed) => v.error = "File type not allowed"

C16_ValidateFile ==
  /\ \A f \in Files \cup {NULL}, m \in SizeLimits, T \in TypeSets : C16_Case(f, m, T)
  /\ validateFile("big.pdf", 10, {"application/pdf"}).error = "File size exceeds limit"
  /\ validateFile("big.txt", 10, {"application/pdf"}).error = "File size exceeds limit"
  /\ validateFile("limit.pdf", 10, {"application/pdf"}).valid
  /\ selectedFile # NULL =>
       /\ FileSize(selectedFile) <= 10 * 1024 * 1024
       /\ FileType(selectedFile) = "application/pdf"

\* The PDF of exactly the limit was accepted; the input was emptied afterwards, by
\* a rejected pick or by Cancel, and the selection is kept.
C16_Witness ==
  /\ UploadMounted /\ selectedFile = "limit.pdf" /\ fileInputValue = NULL
  /\ FileSize(selectedFile) = MaxSizeMB * 1024 * 1024

\* C17 (as claimed): a click on Cancel while no submission is in flight leaves no
\* file selected, so that Start Analysis is not available for the file selected
\* before.
C17_Step == Cancel => (selectedFile' = NULL /\ ~StartAnalysisEnabled')

C17_CancelClearsDraft == [][C17_Step]_vars

\* C18: while a submission is in flight only the answers to its own calls and its
\* own continuations move it: it leaves a stage only with the answer to the call
\* of that stage, to the next stage on success and to the end on a failure of that
\* call, and no other step changes its closure, its answer or the calls issued;
\* when every call settles, every started submission reaches its end.
StageFailure == [upload |-> "upload_failed", register |-> "register_failed",
                 trigger |-> "trigger_failed"]

C18_Step ==
  pc # "idle" =>
    /\ pc' # pc =>
         /\ resp.kind # "none"
         /\ \/ pc = "upload" /\ resp.kind = "ok" /\ pc' = "register"
            \/ pc = "register" /\ resp.kind = "ok" /\ pc' = "trigger"
            \/ /\ pc = "trigger" /\ resp.kind = "ok" /\ pc' = "idle"
               /\ results' = Append(results, "success")
            \/ /\ resp.kind # "ok" /\ pc' = "idle"
               /\ results' = Append(results, StageFailure[pc])
    /\ pc' = pc =>
         /\ job' = job
         /\ resp' = resp \/ resp.kind = "none"
         /\ UNCHANGED <<callVars, results, isProcessing>>

C18_NoAbort ==
  /\ [][C18_Step]_vars
  /\ \A n \in 1..MaxSubmissions : (Len(uploads) = n) ~> (Len(results) = n)

\* The fetch of the first submission is pending although New Analysis cleared the
\* draft and the user signed out and in again in between.
C18_Witness ==
  /\ pc = "trigger" /\ Len(uploads) = 1
  /\ selectedFile = NULL /\ sessions = 2 /\ isAuthenticated

\* C19 (as claimed): from the start of a submission to its end the progress value
\* never decreases; it is 10 while upload is pending, 50 while insertChat is
\* pending, 75 while the fetch is pending, and 100 when the submission has
\* succeeded.
C19_Step ==
  pc # "idle" =>
    /\ uploadProgress' >= uploadProgress
    /\ pc' = "upload" => uploadProgress' = 10
    /\ pc' = "register" => uploadProgress' = 50
    /\ pc' = "trigger" => uploadProgress' = 75
    /\ (pc = "trigger" /\ resp.kind = "ok" /\ pc' = "idle") => uploadProgress' = 100

C19_ProgressMonotone == [][C19_Step]_vars

\* The part of C19 that holds: the value of each pending stage, never decreasing
\* before the step that ends the submission.
C19_StageValues ==
  /\ pc = "upload" => uploadProgress = 10
  /\ pc = "register" => uploadProgress = 50
  /\ pc = "trigger" => uploadProgress = 75

\* C20: the result panel is rendered exactly for a job that is completed with a
\* non-empty result, the waiting panel alone for a pending or processing job, the
\* failure panel alone for a failed job; the panels of the job on display are
\* those of the row with the selected id in data, the latest snapshot, in every
\* state, so also right after a delivery.
C20_Panels(st, r) ==
  LET P == ChatPanels([status |-> st, analysis_result |-> r])
  IN  /\ "result" \in P <=> (st = "completed" /\ r # NULL /\ r # "")
      /\ st \in {"pending", "processing"} => P = {"waiting"}
      /\ st = "failed" => P = {"failed"}

C20_ViewFromSnapshot ==
  /\ \A st \in Statuses, r \in {NULL, "", "report"} : C20_Panels(st, r)
  /\ View = "chat" =>
       \E i \in 1..Len(data) :
         /\ data[i].id = selectedChatId
         /\ data[i].user_id = userId
         /\ data[i].status = "completed" => ShownPanels = {"result"}
         /\ data[i].status \in {"pending", "processing"} => ShownPanels = {"waiting"}
         /\ data[i].status = "failed" => ShownPanels = {"failed"}
  /\ View # "chat" => ShownPanels = {}

\* The job of the only submission, selected by its success, is shown with its
\* result: the snapshots brought it into view and to completed.
C20_Witness ==
  /\ results = <<"success">> /\ selectedChatId = "j1"
  /\ ShownPanels = {"result"}
  /\ selectedChat[1].analysis_result = "report"

\* C21: while the subscription reports an error, Start Analysis is available in
\* the upload screen whenever a file is selected, a user is signed in and no
\* submission is in flight, its click starts the upload, and every continuation of
\* a submission in flight can run once its call is answered.
C21_NotBlockedBySubError ==
  subError =>
    /\ (isAuthenticated /\ UploadMounted /\ selectedFile # NULL /\ ~isProcessing)
         => StartAnalysisEnabled
    /\ (StartAnalysisEnabled /\ userId # NULL /\ Len(uploads) < MaxSubmissions)
         => ENABLED (handleUploadAndAnalyze /\ pc' = "upload")
    /\ (pc = "upload" /\ resp.kind # "none") => ENABLED AfterUpload
    /\ (pc = "register" /\ resp.kind # "none") => ENABLED AfterInsertChat
    /\ (pc = "trigger" /\ resp.kind # "none") => ENABLED AfterFetch

\* A submission has succeeded in a session whose subscription failed before it
\* delivered anything.
C21_Witness ==
  /\ subError /\ sessions = 1 /\ data = <<>>
  /\ results = <<"success">> /\ Len(chats) = 1

\* C22: a snapshot can be delivered at every stage of a submission; the step that
\* changes the held snapshot leaves the stage, the answer, the closure, the
\* progress, the draft and the calls of the submission unchanged, and a delivery
\* makes the job list the current user's rows of the registry, newest first; no
\* step of a submission changes the held snapshot or the state of the channel.
C22_Deliverable ==
  (isAuthenticated /\ ~subError /\ data # Reverse(chats)) => ENABLED SubscriptionDelivers

C22_Step ==
  /\ data' # data =>
       UNCHANGED <<flightVars, progressVars, draftVars, isProcessing, callVars,
                   selectedChatId>>
  /\ (data' # data /\ isAuthenticated' /\ ~subError') =>
       myChats' = SelectSeq(Reverse(chats), LAMBDA c : c.user_id = userId)
  /\ (pc # "idle" /\ <<pc, job, callVars, results>>' # <<pc, job, callVars, results>>) =>
       UNCHANGED subVars

C22_Independent == []C22_Deliverable /\ [][C22_Step]_vars

\* While the fetch is pending the snapshot already holds the job of this submission.
C22_Witness ==
  /\ pc = "trigger" /\ resp.kind = "none" /\ uploadProgress = 75
  /\ data # <<>> /\ data[1].id = job.chatId
  /\ Len(myChats) = 1

\* C23: whenever the held snapshot has a row with the selected id that is owned by
\* the current user, the view is the view of that job, in the state the delivery
\* leaves and with no click; so the job a successful submission selected is on
\* display as soon as a snapshot with it is held, unless the selection was changed.
C23_ShownOnceDelivered ==
  \A i \in 1..Len(data) :
    (isAuthenticated /\ data[i].id = selectedChatId /\ data[i].user_id = userId) =>
       /\ View = "chat"
       /\ selectedChat = <<data[i]>>

\* The job of the successful submission is on display, still pending.
C23_Witness ==
  /\ pc = "idle" /\ results # <<>> /\ Last(results) = "success"
  /\ selectedChatId = Last(triggers).chat_id
  /\ View = "chat" /\ selectedChat[1].status = "pending"

\* C24: the step that ends a submission by a failure of its upload, its insertChat
\* or its fetch leaves the selected file, the query text and the selected job id as
\* they are, makes the progress message the error message, and leaves the progress
\* value at that of the failed stage: 10, 50 or 75, never 100 or 0.
StageProgress == [upload |-> 10, register |-> 50, trigger |-> 75]

C24_Step ==
  (pc # "idle" /\ pc' = "idle" /\ Last(results') # "success") =>
     /\ resp.kind \notin {"none", "ok"}
     /\ UNCHANGED <<selectedFile, userQuery, selectedChatId>>
     /\ progressMessage' = "Upload failed. Please try again."
     /\ uploadProgress' = uploadProgress
     /\ uploadProgress' = StageProgress[pc]

C24_FailureFrame == [][C24_Step]_vars

\* A submission has failed at its fetch and no step was taken since.
C24_Witness ==
  /\ pc = "idle" /\ results # <<>> /\ Last(results) = "trigger_failed"
  /\ uploadProgress = 75 /\ progressMessage = PROGRESS_MESSAGES.error
  /\ selectedFile = "report.pdf" /\ userQuery = <<" ", "q", " ">>
  /\ selectedChatId = NULL

\* C25: a change event with a file that validateFile rejects, or with no file,
\* leaves the selected file, the progress value and the progress message as they
\* are, so Start Analysis stays available for a file selected before; and every
\* upload carries the file that was selected when Start Analysis was clicked.
C25_Step ==
  /\ \A f \in PickerFiles \cup {NULL} :
       (handleFileChange(f) /\ ~validateFile(f, 10, {"application/pdf"}).valid) =>
          /\ UNCHANGED <<selectedFile, uploadProgress, progressMessage>>
          /\ StartAnalysisEnabled => StartAnalysisEnabled'
  /\ uploads' # uploads => Last(uploads').file = selectedFile

C25_InvalidPickKeepsSelection == [][C25_Step]_vars

\* The input element is empty, as a rejected pick leaves it, report.pdf is still
\* selected after a failed submission, and the retry is uploading report.pdf.
C25_Witness ==
  /\ Len(results) = 1 /\ results[1] = "upload_failed"
  /\ pc = "upload" /\ Len(uploads) = 2 /\ uploads[2].file = "report.pdf"
  /\ uploads[1].file = "report.pdf" /\ fileInputValue = NULL

\* C26: New Analysis and the selection of a job are available while a submission
\* is in flight and leave it running; the step that ends the submission in success
\* selects the new job whatever was selected during the flight, and the step that
\* ends it in failure keeps what was selected.
C26_Step ==
  /\ (pc # "idle" /\ selectedChatId' # selectedChatId /\ pc' = pc) =>
        UNCHANGED <<flightVars, callVars, isProcessing>>
  /\ (pc = "trigger" /\ resp.kind = "ok" /\ pc' = "idle") =>
        /\ selectedChatId' = job.chatId
        /\ selectedChatId' = Last(chats).id
        /\ Last(results') = "success"
  /\ (pc # "idle" /\ pc' = "idle" /\ resp.kind # "ok") =>
        /\ selectedChatId' = selectedChatId
        /\ Last(results') # "success"

C26_SelectionInFlight == [][C26_Step]_vars

\* The first job was selected while the second submission was in flight; its fetch
\* has been answered with success and its continuation is about to run.
C26_Witness ==
  /\ pc = "trigger" /\ resp.kind = "ok" /\ Len(uploads) = 2
  /\ View = "chat" /\ selectedChatId = "j1" /\ job.chatId = "j2"
  /\ results = <<"success">>

\* C27: no two fetch calls carry the same job id or the same file id, no two
\* insertChat calls carry the same file id, every attempt that reached a call has
\* its own upload, and every fetch names a row of its own; so the retry after a
\* failed fetch has registered a further row.
C27_NoRetrigger ==
  /\ \A i, j \in 1..Len(triggers) :
       i # j => /\ triggers[i].chat_id # triggers[j].chat_id
                /\ triggers[i].file_id # triggers[j].file_id
                /\ triggers[i].sub # triggers[j].sub
  /\ \A i, j \in 1..Len(inserts) :
       i # j => /\ inserts[i].file_id # inserts[j].file_id
                /\ inserts[i].sub # inserts[j].sub
  /\ \A c \in Range(inserts) : c.sub \in 1..Len(uploads)
  /\ \A t \in Range(triggers) :
       /\ \E c \in Range(inserts) : c.sub = t.sub /\ c.file_id = t.file_id
       /\ Cardinality({i \in 1..Len(chats) : chats[i].id = t.chat_id}) = 1
  /\ \A i, j \in 1..Len(chats) : i # j => chats[i].id # chats[j].id
  /\ Len(triggers) <= Len(chats) /\ Len(chats) <= Len(inserts)
  /\ Len(inserts) <= Len(uploads)

\* The fetch of the first attempt failed; the retry of the same file has uploaded
\* it again, registered a second row and is triggering that one.
C27_Witness ==
  /\ results = <<"trigger_failed">> /\ pc = "trigger"
  /\ Len(chats) = 2 /\ chats[1].file_name = chats[2].file_name
  /\ chats[1].file_id = "f1" /\ chats[2].file_id = "f2"
  /\ triggers[1].chat_id = "j1" /\ triggers[2].chat_id = "j2"

\* C28: the job on display is owned by the current user, and a selected id that
\* no row of the current user in the snapshot has resolves to no job, whether the
\* snapshot has it as another user's row or not at all.
C28_OwnJobOnly ==
  /\ View = "chat" =>
       /\ userId # NULL
       /\ selectedChat[1].user_id = userId
       /\ selectedChat[1].id = selectedChatId
  /\ (\A i \in 1..Len(data) : data[i].id = selectedChatId => data[i].user_id # userId) =>
       /\ selectedChat = <<>>
       /\ View # "chat"

\* u2 is signed in with the id of u1's job still selected from u1's session, and
\* the snapshot holds that job.
C28_Witness ==
  /\ isAuthenticated /\ userId = "u2" /\ selectedChatId = "j1"
  /\ data # <<>> /\ data[1].id = "j1" /\ data[1].user_id = "u1"
  /\ selectedChat = <<>> /\ View = "upload"

\* C29: every insertChat call carries the name of the file that the upload call of
\* the same submission carried, the file selected when Start Analysis was clicked,
\* whatever the draft is by then; the row is registered under that name.
C29_SameFile ==
  /\ \A c \in Range(inserts) :
       /\ c.sub \in 1..Len(uploads)
       /\ c.file_name = uploads[c.sub].file
       /\ c.file_name # NULL
  /\ pc # "idle" => job.file = Last(uploads).file
  /\ \A i \in 1..Len(chats) :
       \E c \in Range(inserts) : c.file_id = chats[i].file_id /\ c.file_name = chats[i].file_name

\* New Analysis cleared the draft while upload was pending; insertChat is pending
\* with the name of the uploaded file.
C29_Witness ==
  /\ pc = "register" /\ selectedFile = NULL
  /\ Last(uploads).file = "report.pdf" /\ Last(inserts).file_name = "report.pdf"
  /\ Len(uploads) = 1

\* C30: a call of handleUploadAndAnalyze with no selected file or with no user id
\* issues no upload, insertChat or fetch and leaves isProcessing, the progress
\* value, the progress message, the draft and the selected job id unchanged; so
\* every upload issued carries a file and was started for a user.
C30_Step ==
  (pc = "idle" /\ (selectedFile = NULL \/ userId = NULL)) =>
     UNCHANGED <<isProcessing, uploadProgress, progressMessage, selectedFile, userQuery,
                 selectedChatId, uploads, inserts, triggers, pc>>

C30_Started ==
  /\ \A u \in Range(uploads) : u.file # NULL
  /\ pc # "idle" => (job.file # NULL /\ job.userId # NULL)
  /\ (~isAuthenticated \/ (selectedFile = NULL /\ results = <<>>)) => uploads = <<>>

C30_GuardedStart == [][C30_Step]_vars /\ []C30_Started

\* A submission has cleared the draft by its success: the handler is called with
\* no selected file.
C30_Witness ==
  /\ pc = "idle" /\ results = <<"success">> /\ selectedFile = NULL
  /\ userId = "u1" /\ Len(uploads) = 1 /\ ENABLED HandlerCall
====
